---- MODULE Spec2Model ----
(***************************************************************************)
(* Realtime gateway of sync-text: WebSocketService (one object per server *)
(* instance), ActiveSessionsService (the presence hash session:{doc} in    *)
(* the cache store, shared by all instances) and RedisPubSubService (one   *)
(* handler table and one subscriber connection per instance).              *)
(*                                                                         *)
(* One action is one handler run to completion.  The bus is asynchronous:  *)
(* a publish appends the envelope to the subscriber connection of every    *)
(* instance subscribed at that moment, and Deliver runs the listener.      *)
(* The envelopes followed through the bus are those of the update frames;  *)
(* the user-joined and user-left envelopes published by join and leave     *)
(* change no state of the servers or of the cache store.                   *)
(*                                                                         *)
(* RateLimitService is followed on a clock of milliseconds in front of the *)
(* update frames (RateSpec); QueueService and QueueWorkerService are       *)
(* followed with their lists in the store, the retry timers and the calls  *)
(* of retryFailedJob, which is two steps around its awaits (QueueSpec).    *)
(* handleDocumentUpdateJob is followed await by await, with the documents  *)
(* table, the content cache and the update route of the documents          *)
(* controller (PersistSpec); the functions of the content cache are        *)
(* followed on their own (CacheSpec), and the worker processes with a      *)
(* process that exits and the clock (TimeoutSpec).                         *)
(*                                                                         *)
(* The frames that are no update of a joined socket are followed in        *)
(* FrameSpec; the user-left and user-joined envelopes of one join are      *)
(* followed through the bus in AnnounceSpec; OrderSpec splits handleMessage *)
(* at its await of the rate limiter, where the next frame of the           *)
(* connection can be dispatched.                                           *)
(***************************************************************************)
EXTENDS Integers, Sequences, FiniteSets, TLC

\* ---------------------------------------------------------------- bounds
MaxMsgs == 1         \* update frames sent in one behaviour
MaxTicks == 2        \* steps of the clock in one behaviour
MaxMessages == 2     \* rate limit: maxMessages of the configuration followed
WindowMs == 1        \* rate limit: windowMs of the configuration followed
BlockDurationMs == 2 \* rate limit: blockDurationMs of the configuration followed
MaxFrames == 4       \* frames checked by the rate limiter in one behaviour
MaxRlNow == 3        \* last millisecond of the rate limiter's clock
MaxRetries == 2      \* calls of retryFailedJob that find their job, in one behaviour
MaxProcs == 4        \* times one job is handed to a worker in one behaviour
MaxTimers == 3       \* retry timers of failJob pending at once
MaxListeners == 2    \* listeners of one channel on one subscriber connection
MaxLeaves == 2       \* handleLeaveDocument calls of one socket under way at once
MaxClientSockets == 4 \* WebSockets one provider creates in one behaviour
MaxArrivals == 2     \* update frames of one connection followed to the rate limiter

\* ------------------------------------------------------------- universe
Instances == {"X", "Y"}
Users == {"P", "Q"}
Docs == {"D1", "D2"}
Sockets == {"s1", "s2", "s3", "s4"}
NoDoc == "none"
UpdateTypes == {"yjs-update", "awareness-update"}

\* ActiveSessionsService.SESSION_TTL, seconds.  The clock counts seconds
\* (Date.now() is in milliseconds and the code scales the TTL by 1000) and
\* moves in steps of two thirds of the TTL.
SESSION_TTL == 300
TickStep == (2 * SESSION_TTL) \div 3

\* A socket id is generated per connection and embeds the user id; the
\* connection belongs to the instance that accepted it.
SockUser == [s \in Sockets |-> IF s \in {"s1", "s2"} THEN "P" ELSE "Q"]
SockInst == [s \in Sockets |-> IF s = "s4" THEN "Y" ELSE "X"]

VARIABLES
    sockState,   \* socket -> "new" | "open" | "closed"; open = in socketConnections
    wsDoc,       \* socket -> ws.documentId (NoDoc when undefined)
    sessions,    \* doc -> hash session:{doc}: field -> [userId, socketId, lastActive]
    expireAt,    \* doc -> time at which the store drops the hash (0: no hash)
    now,         \* the clock, Date.now() in seconds
    handlers,    \* instance -> channels (documents) with a pub/sub handler
    busQ,        \* instance -> update envelopes in flight to its subscriber connection
    msgs,        \* history: the update frames admitted so far and who was sent them
    lastSent,    \* history: socket -> time of its latest update frame in a run of activity
    errs,        \* socket -> number of error frames sent to it
    rlNow,       \* the clock of the rate limiter, Date.now() in milliseconds
    rlWindow,    \* <<user, type>> -> members of the sorted set rate_limit:{user}:{type}
    rlBlock,     \* <<user, type>> -> value of rate_limit_block:{user}:{type} (0: no key)
    rlLog,       \* history: <<user, type>> -> the frames checked, [t, ok, up] each
    pending,     \* the list document-updates, head first: jobs [id, attempts]
    processing,  \* the fields of the hash processing-jobs: job ids
    failed,      \* the list failed-jobs, head first: [id, attempts, error, failedAt]
    timers,      \* the retry timers set by failJob and not fired yet: job, process
    held,        \* worker -> the job its handleJob is working on (NoJob: idle)
    retr,        \* request -> the failed-jobs entry its retryFailedJob has found
    retResult,   \* request -> what its latest retryFailedJob returned
    enqueued,    \* history: job ids in the order of addDocumentUpdateJob
    dequeued,    \* history: [id, w] of the first processNextJob of each job, in order
    procs,       \* history: job id -> number of times processNextJob returned it
    done,        \* history: job ids for which completeJob ran
    retried,     \* history: job ids a retryFailedJob has pushed back
    retryMark,   \* history: job -> the value of procs at its latest retryFailedJob
    cleared,     \* history: clearAllQueues has returned, no job in a worker's hands or in
                 \* a retryFailedJob call at that moment, and nothing was enqueued since
    document,    \* doc -> the row of the documents table: [content, title]
    docCache,    \* doc -> value of the key doc:content:{doc} (NoKey: no key)
    stage,       \* worker -> where its handleDocumentUpdateJob is: update, cache, history
    setexQ,      \* worker process -> its setEx commands on the way to the store, in order
    startedAt,   \* job id -> processingStartedAt of its field in processing-jobs (0: none)
    editHistory, \* the edit-history table: the job ids of its records
    response,    \* what the update route answered last
    changed,     \* the latest call of hasDocumentContentChanged and what it returned
    applied,     \* history: job id -> number of times updateDocument wrote it
    histFails,   \* history: job ids whose createEditHistory threw after the write
    lastBody,    \* history: doc -> the body of the latest update request
    cachedOf,    \* history: doc -> the content and title of the latest write of its key
    awaiting,    \* socket -> its handleMessage calls at the await of isRateLimited, oldest first
    arrived,     \* history: socket -> number of update frames received from it
    isRunning,   \* worker process -> the isRunning flag of its QueueWorkerService
    tickers,     \* worker process -> number of live setInterval timers of its worker
    listeners,   \* instance -> channel -> listeners held by its subscriber connection
    runs,        \* history: instance -> followed envelope -> runs of handlePubSubMessage
    leaving,     \* socket -> its handleLeaveDocument calls under way, oldest first
    userLeft,    \* history: socket -> user-left envelopes published for it
    readyState,  \* provider: WebSocket it has created -> readyState ("none": not created)
    ws,          \* provider: this.ws, the WebSocket of the latest connect()
    isIntentionallyDisconnected,
    isTabHidden,
    reconnects   \* provider: setTimeout callbacks of onclose that have not run yet

rlVars == <<errs, rlNow, rlWindow, rlBlock, rlLog>>
qVars == <<pending, processing, failed, timers, held, retr, retResult,
           enqueued, dequeued, procs, done, retried, retryMark, cleared>>
pRest == <<document, docCache, stage, setexQ, editHistory, response, changed,
           applied, histFails, lastBody, cachedOf>>
pVars == <<pRest, startedAt>>
oVars == <<awaiting, arrived>>
wVars == <<isRunning, tickers>>
lVars == <<listeners, runs>>
dVars == <<leaving, userLeft>>
cVars == <<readyState, ws, isIntentionallyDisconnected, isTabHidden, reconnects>>
gwVars == <<sockState, wsDoc, sessions, expireAt, now, handlers, busQ, msgs, lastSent, oVars,
            wVars, lVars, dVars, cVars>>
sideVars == <<rlVars, qVars, pVars, oVars, wVars, lVars, dVars, cVars>>
vars == <<sockState, wsDoc, sessions, expireAt, now, handlers, busQ, msgs, lastSent, sideVars>>

EmptyHash == [f \in {} |-> [userId |-> "", socketId |-> "", lastActive |-> 0]]

\* ------------------------------------------------- ActiveSessionsService
\* the hash keyed by the socket id instead of the user id
AddSessionBySocket(sess, d, userId, socketId, t) ==
    [sess EXCEPT ![d] =
        [f \in (DOMAIN sess[d]) \cup {socketId} |->
            IF f = socketId
            THEN [userId |-> userId, socketId |-> socketId, lastActive |-> t]
            ELSE sess[d][f]]]

\* hSet(session:{doc}, userId, {userId, username, socketId, lastActive})
AddSession(sess, d, userId, socketId, t) ==
    [sess EXCEPT ![d] =
        [f \in (DOMAIN sess[d]) \cup {userId} |->
            IF f = userId
            THEN [userId |-> userId, socketId |-> socketId, lastActive |-> t]
            ELSE sess[d][f]]]

\* expire(session:{doc}, SESSION_TTL)
RefreshTtl(exp, d, t) == [exp EXCEPT ![d] = t + SESSION_TTL]

\* a store that keeps the key of a hash without fields
KeyTtlKept(exp, sess) == exp

\* a hash without fields does not exist in the store, and has no TTL
KeyTtl(exp, sess) == [d \in Docs |-> IF DOMAIN sess[d] = {} THEN 0 ELSE exp[d]]

\* the hashes whose TTL has run out at time t are gone
Expired(sess, exp, t) ==
    [d \in Docs |-> IF DOMAIN sess[d] # {} /\ exp[d] <= t THEN EmptyHash ELSE sess[d]]

\* a sweep whose threshold leaves out the TTL
StaleUserIdsNoTtl(sess, d, t) ==
    {f \in DOMAIN sess[d] : sess[d][f].lastActive < t}

\* cleanupStaleSessions: the fields of a hash older than the threshold
StaleUserIds(sess, d, t) ==
    {f \in DOMAIN sess[d] : sess[d][f].lastActive < t - SESSION_TTL}

\* hDel(session:{doc}, fields)
DeleteFields(sess, d, fields) ==
    [sess EXCEPT ![d] = [f \in (DOMAIN sess[d]) \ fields |-> sess[d][f]]]

\* the removal addressed to another key: nothing is deleted
RemoveSessionWrongKey(sess, d, userId) == sess

\* hDel(session:{doc}, userId)
RemoveSession(sess, d, userId) == DeleteFields(sess, d, {userId})

\* hGetAll: the session list; the userId of an entry is the hash field
GetDocumentSessions(sess, d) ==
    {[userId |-> f, socketId |-> sess[d][f].socketId] : f \in DOMAIN sess[d]}

\* hLen
GetDocumentSessionCount(sess, d) == Cardinality(DOMAIN sess[d])

\* keys(session:*): the keys the store holds, each with the TTL of its expire
GetActiveDocuments(exp) == {d \in Docs : exp[d] # 0}

\* ------------------------------------------------ CustomWebsocketProvider
\* the WebSockets one provider creates, in the order of creation
ClientSockets == 1..MaxClientSockets

Created(rs) == {k \in ClientSockets : rs[k] # "none"}
NextSocket(rs) == Cardinality(Created(rs)) + 1

\* isConnected(): this.ws?.readyState === WebSocket.OPEN
IsConnected(rs, w) == rs[w] = "OPEN"

\* ---------------------------------------------------- RedisPubSubService
\* publish: the envelope goes to every instance subscribed to the channel
Publish(q, h, env) ==
    [i \in Instances |-> IF env.doc \in h[i] THEN Append(q[i], env) ELSE q[i]]

Subscribe(h, i, d) == [h EXCEPT ![i] = @ \cup {d}]
Unsubscribe(h, i, d) == [h EXCEPT ![i] = @ \ {d}]

\* subClient.subscribe(channel, listener): each call hands the connection a new
\* function, which joins the listeners the connection holds for the channel
AddListener(l, i, d) == [l EXCEPT ![i][d] = @ + 1]

\* subClient.unsubscribe(channel): every listener of the channel goes
RemoveListeners(l, i, d) == [l EXCEPT ![i][d] = 0]

\* ------------------------------------------------------- RateLimitService
\* one bucket per (user, message type)
RateKeys == Users \X UpdateTypes

\* WebSocketService.rateLimitConfigs.  The code's table is {50, 1000, 5000}
\* for yjs-update and {30, 1000, 3000} for awareness-update; the limiter is
\* followed with a small configuration of the same shape, times in ms.
RateLimitConfigs ==
    [type \in UpdateTypes |->
        IF type = "yjs-update"
        THEN [maxMessages |-> MaxMessages, windowMs |-> WindowMs,
              blockDurationMs |-> BlockDurationMs]
        ELSE [maxMessages |-> MaxMessages - 1, windowMs |-> WindowMs,
              blockDurationMs |-> BlockDurationMs - 1]]

\* zRangeByScore(key, now - windowMs, '+inf'): both ends inclusive
ZRangeByScore(zset, lo) == {x \in zset : x >= lo}

\* the check that rejects when the store does not answer
IsRateLimitedFailClosed(block, zset, config, t, up) ==
    IF ~up
    THEN [isLimited |-> TRUE, block |-> block]
    ELSE IF block # 0 /\ t < block
    THEN [isLimited |-> TRUE, block |-> block]
    ELSE IF Cardinality(ZRangeByScore(zset, t - config.windowMs)) >= config.maxMessages
    THEN [isLimited |-> TRUE, block |-> t + config.blockDurationMs]
    ELSE [isLimited |-> FALSE, block |-> 0]

\* the check that starts the block again when it rejects during a block
IsRateLimitedExtends(block, zset, config, t, up) ==
    IF ~up
    THEN [isLimited |-> FALSE, block |-> block]
    ELSE IF block # 0 /\ t < block
    THEN [isLimited |-> TRUE, block |-> t + config.blockDurationMs]
    ELSE IF Cardinality(ZRangeByScore(zset, t - config.windowMs)) >= config.maxMessages
    THEN [isLimited |-> TRUE, block |-> t + config.blockDurationMs]
    ELSE [isLimited |-> FALSE, block |-> 0]

\* isRateLimited(userId, messageType, config) at time t.  up: the store answers.
\* The result carries the verdict and what the call leaves in the block key.
\* (setEx gives the key a TTL of ceil(blockDurationMs / 1000) seconds, never
\* shorter than the block itself, so the key is there whenever t < blockTime.)
IsRateLimited(block, zset, config, t, up) ==
    IF ~up
    THEN [isLimited |-> FALSE, block |-> block]
    ELSE IF block # 0 /\ t < block
    THEN [isLimited |-> TRUE, block |-> block]
    ELSE IF Cardinality(ZRangeByScore(zset, t - config.windowMs)) >= config.maxMessages
    THEN [isLimited |-> TRUE, block |-> t + config.blockDurationMs]
    ELSE [isLimited |-> FALSE, block |-> 0]

\* incrementRateLimit: zAdd(key, {score: now, value: now.toString()}); the
\* member is the timestamp, so a second frame in the same millisecond adds
\* no member
IncrementRateLimit(zset, t, up) == IF up THEN zset \cup {t} ELSE zset

\* ----------------------------------------------------------- QueueService
Jobs == {"j1", "j2"}
Workers == {"w1", "w2", "w3"}   \* runs of QueueWorkerService.processNextJob in progress
\* The interval of start() begins a run every second, whatever the runs before
\* it are doing: w1 and w2 are runs of one worker process, w3 of another.
WorkerProcesses == {"A", "B"}
WorkerProcess == [w \in Workers |-> IF w = "w3" THEN "B" ELSE "A"]
Requests == {"r1", "r2"}     \* calls of retryFailedJob in progress
NoJob == [id |-> "none", attempts |-> 0]
\* How the update of a job fails when it fails: the data gateway throws
\* (transient), or updateDocument returns null because the document of the job
\* is missing or not the user's, which it then is at every attempt.
JobFailure == [j \in Jobs |-> IF j = "j1" THEN "transient" ELSE "null"]
DEFAULT_MAX_ATTEMPTS == 3
DEFAULT_JOB_TIMEOUT == 30000 \* milliseconds
\* job.data of the jobs: documentId and updates.content (no updates.title)
JobDoc == [j \in Jobs |-> "D1"]
JobContent == [j \in Jobs |-> IF j = "j1" THEN "a" ELSE "b"]

\* the list commands of the store
LPush(list, x) == <<x>> \o list
LPop(list) == Tail(list)
LRange(list, start, stop) ==
    SubSeq(list, start + 1, IF stop + 1 < Len(list) THEN stop + 1 ELSE Len(list))
Positions(list, x) == {i \in DOMAIN list : list[i] = x}
FirstPosition(list, x) == CHOOSE i \in Positions(list, x) : \A k \in Positions(list, x) : i <= k
\* lRem(key, 1, x): the first element equal to x goes, if there is one
LRem(list, x) ==
    IF Positions(list, x) = {}
    THEN list
    ELSE SubSeq(list, 1, FirstPosition(list, x) - 1)
             \o SubSeq(list, FirstPosition(list, x) + 1, Len(list))

\* addDocumentUpdateJob: the job as it is pushed
NewJob(j) == [id |-> j, attempts |-> 0]

\* failJob: the comparison that sends the job to failed-jobs
ExhaustedLate(attempts, maxAttempts) == attempts > maxAttempts
Exhausted(attempts, maxAttempts) == ~(attempts < maxAttempts)

\* failJob: the entry pushed to failed-jobs
FailedJob(job, error) ==
    [id |-> job.id, attempts |-> job.attempts, error |-> error, failedAt |-> "set"]

\* retryFailedJob: the job pushed back, error and failedAt undefined
RetryJobKeepsAttempts(entry) == [id |-> entry.id, attempts |-> entry.attempts]
RetryJob(entry) == [id |-> entry.id, attempts |-> 0]

\* getFailedJobs(limit)
GetFailedJobs(list, limit) == LRange(list, 0, limit - 1)

\* ------------------------------------------- RedisService, content cache
Contents == {"a", "b"}
Titles == {"t", "u"}
Undefined == "undefined"
NoKey == [nil |-> TRUE]      \* get(key) of a key the store does not hold
Null == [null |-> TRUE]
NoCall == [none |-> TRUE]

\* cacheDocumentContent: the object built before setEx
CacheData(content, title, t) ==
    [content |-> content, title |-> title, cachedAt |-> t, version |-> t]
\* JSON.stringify leaves out a member whose value is undefined
Stringify(data) ==
    IF data.title = Undefined
    THEN [content |-> data.content, cachedAt |-> data.cachedAt, version |-> data.version]
    ELSE data
\* JSON.parse; a member the text does not have reads as undefined
Parse(text) ==
    [content |-> text.content,
     title |-> IF "title" \in DOMAIN text THEN text.title ELSE Undefined,
     cachedAt |-> text.cachedAt,
     version |-> text.version]

\* getCachedDocumentContent: null without a key, and null when the store fails
GetCachedDocumentContent(value, up) ==
    IF ~up \/ value = NoKey THEN Null ELSE Parse(value)

\* hasDocumentContentChanged with the new title compared also when undefined
HasDocumentContentChangedAnyTitle(value, newContent, newTitle, up) ==
    LET cached == GetCachedDocumentContent(value, up)
    IN IF cached = Null
       THEN [hasChanged |-> TRUE]
       ELSE [hasChanged |-> (cached.content # newContent) \/ (cached.title # newTitle),
             cachedContent |-> cached.content,
             cachedTitle |-> IF cached.title = Undefined THEN "" ELSE cached.title]

\* hasDocumentContentChanged
HasDocumentContentChanged(value, newContent, newTitle, up) ==
    LET cached == GetCachedDocumentContent(value, up)
        contentChanged == cached.content # newContent
        titleChanged == newTitle # Undefined /\ cached.title # newTitle
    IN IF cached = Null
       THEN [hasChanged |-> TRUE]
       ELSE [hasChanged |-> contentChanged \/ titleChanged,
             cachedContent |-> cached.content,
             cachedTitle |-> IF cached.title = Undefined THEN "" ELSE cached.title]

\* ------------------------------------------------------ WebSocketService
InitWith(deadLetters) ==
    /\ sockState = [s \in Sockets |-> "new"]
    /\ wsDoc = [s \in Sockets |-> NoDoc]
    /\ sessions = [d \in Docs |-> EmptyHash]
    /\ expireAt = [d \in Docs |-> 0]
    /\ now = 0
    /\ handlers = [i \in Instances |-> {}]
    /\ busQ = [i \in Instances |-> <<>>]
    /\ msgs = <<>>
    /\ lastSent = [s \in Sockets |-> 0]
    /\ errs = [s \in Sockets |-> 0]
    /\ rlNow = 0
    /\ rlWindow = [k \in RateKeys |-> {}]
    /\ rlBlock = [k \in RateKeys |-> 0]
    /\ rlLog = [k \in RateKeys |-> <<>>]
    /\ pending = <<>>
    /\ processing = {}
    /\ failed = deadLetters
    /\ timers = <<>>
    /\ held = [w \in Workers |-> NoJob]
    /\ document = [d \in Docs |-> [content |-> "", title |-> "t"]]
    /\ docCache = [d \in Docs |-> NoKey]
    /\ stage = [w \in Workers |-> "update"]
    /\ setexQ = [p \in WorkerProcesses |-> <<>>]
    /\ startedAt = [j \in Jobs |-> 0]
    /\ editHistory = {}
    /\ response = "none"
    /\ changed = NoCall
    /\ applied = [j \in Jobs |-> 0]
    /\ histFails = {}
    /\ lastBody = [d \in Docs |-> "none"]
    /\ cachedOf = [d \in Docs |-> NoCall]
    /\ awaiting = [s \in Sockets |-> <<>>]
    /\ arrived = [s \in Sockets |-> 0]
    /\ isRunning = [p \in WorkerProcesses |-> TRUE]
    /\ tickers = [p \in WorkerProcesses |-> 1]
    /\ listeners = [i \in Instances |-> [d \in Docs |-> 0]]
    /\ runs = [i \in Instances |-> [m \in 1..MaxMsgs |-> 0]]
    /\ leaving = [s \in Sockets |-> <<>>]
    /\ userLeft = [s \in Sockets |-> 0]
    /\ readyState = [k \in ClientSockets |-> IF k = 1 THEN "CONNECTING" ELSE "none"]
    /\ ws = 1
    /\ isIntentionallyDisconnected = FALSE
    /\ isTabHidden = FALSE
    /\ reconnects = 0
    /\ retr = [r \in Requests |-> NoJob]
    /\ retResult = [r \in Requests |-> "none"]
    /\ enqueued = <<>>
    /\ dequeued = <<>>
    /\ procs = [j \in Jobs |-> 0]
    /\ done = {}
    /\ retried = {}
    /\ retryMark = [j \in Jobs |-> 0]
    /\ cleared = FALSE

Init == InitWith(<<>>)

\* the processes start on a store whose failed-jobs holds j1, dead-lettered
\* after DEFAULT_MAX_ATTEMPTS transient failures
AttemptInit ==
    InitWith(<<FailedJob([id |-> "j1", attempts |-> DEFAULT_MAX_ATTEMPTS], JobFailure["j1"])>>)

Local(i) == {s \in Sockets : SockInst[s] = i /\ sockState[s] = "open"}

\* handleConnection: the socket enters socketConnections, not joined to anything
Connect(s) ==
    /\ sockState[s] = "new"
    /\ sockState' = [sockState EXCEPT ![s] = "open"]
    /\ UNCHANGED <<lastSent, sideVars, wsDoc, sessions, expireAt, now, handlers, busQ, msgs>>

\* ---- handleLeaveDocument(ws), as the values it leaves behind
\* the early return: nothing happens unless ws.documentId is set
Leaves(s) == wsDoc[s] # NoDoc

\* the leave that removes no session
LeaveSessionsKept(sess, s) == sess

LeaveSessions(sess, s) ==
    IF Leaves(s) THEN RemoveSession(sess, wsDoc[s], SockUser[s]) ELSE sess

\* the unsubscribe without the check of the remaining sessions
LeaveUnsubscribesAlways(sess, d) == TRUE

\* "if (remainingSessions === 0) unsubscribe": the count is the hash length
LeaveUnsubscribes(sess, d) == GetDocumentSessionCount(sess, d) = 0

LeaveHandlers(h, sess, s) ==
    IF Leaves(s) /\ LeaveUnsubscribes(LeaveSessions(sess, s), wsDoc[s])
    THEN Unsubscribe(h, SockInst[s], wsDoc[s])
    ELSE h

\* history: a socket that departs is no longer owed the frames sent earlier
Depart(ms, s) ==
    [m \in DOMAIN ms |->
        [ms[m] EXCEPT !.got = [t \in (DOMAIN ms[m].got) \ {s} |-> ms[m].got[t]]]]

\* 'leave-document' frame
LeaveDocument(s) ==
    /\ sockState[s] = "open"
    /\ sessions' = LeaveSessions(sessions, s)
    /\ expireAt' = KeyTtl(expireAt, sessions')
    /\ handlers' = LeaveHandlers(handlers, sessions, s)
    /\ wsDoc' = [wsDoc EXCEPT ![s] = NoDoc]
    /\ msgs' = Depart(msgs, s)
    /\ UNCHANGED <<lastSent, sideVars, sockState, now, busQ>>

\* socket 'close' event: handleDisconnect
Disconnect(s) ==
    /\ sockState[s] = "open"
    /\ sockState' = [sockState EXCEPT ![s] = "closed"]
    /\ sessions' = LeaveSessions(sessions, s)
    /\ expireAt' = KeyTtl(expireAt, sessions')
    /\ handlers' = LeaveHandlers(handlers, sessions, s)
    /\ wsDoc' = [wsDoc EXCEPT ![s] = NoDoc]
    /\ msgs' = Depart(msgs, s)
    /\ UNCHANGED <<lastSent, sideVars, now, busQ>>

\* 'join-document' frame: handleJoinDocument(ws, d)
JoinDocument(s, d) ==
    /\ sockState[s] = "open"
    /\ LET left == LeaveSessions(sessions, s)
           h1 == LeaveHandlers(handlers, sessions, s)
       IN /\ wsDoc' = [wsDoc EXCEPT ![s] = d]
          /\ sessions' = AddSession(left, d, SockUser[s], s, now)
          /\ expireAt' = RefreshTtl(KeyTtl(expireAt, left), d, now)
          /\ handlers' = Subscribe(h1, SockInst[s], d)
    /\ msgs' = Depart(msgs, s)
    /\ UNCHANGED <<lastSent, sideVars, sockState, now, busQ>>

\* 'join-document' frame whose envelopes are followed: the user-left of the
\* leave is published before the unsubscribe of the leave, the user-joined
\* before the subscribe of the join; m is the place of the join in the
\* history, with the sockets joined to d that are owed the user-joined and
\* the users of the users-in-document frame sent to s
JoinAnnounced(s, d) ==
    /\ sockState[s] = "open"
    /\ Len(msgs) < MaxMsgs
    /\ LET old == wsDoc[s]
           left == LeaveSessions(sessions, s)
           h1 == LeaveHandlers(handlers, sessions, s)
           q1 == IF Leaves(s) THEN Publish(busQ, handlers, [doc |-> old, id |-> 0]) ELSE busQ
           added == AddSession(left, d, SockUser[s], s, now)
           r == [from |-> s, doc |-> d, left |-> old, echo |-> 0,
                 got |-> [t \in {x \in Sockets \ {s} : sockState[x] = "open" /\ wsDoc[x] = d}
                             |-> 0],
                 users |-> {x.userId : x \in GetDocumentSessions(added, d)}]
       IN /\ wsDoc' = [wsDoc EXCEPT ![s] = d]
          /\ sessions' = added
          /\ expireAt' = RefreshTtl(KeyTtl(expireAt, left), d, now)
          /\ busQ' = Publish(q1, h1, [doc |-> d, id |-> Len(msgs) + 1])
          /\ handlers' = Subscribe(h1, SockInst[s], d)
          /\ msgs' = Append(Depart(msgs, s), r)
    /\ UNCHANGED <<lastSent, sideVars, sockState, now>>

\* ---- broadcastToDocument(documentId, type, data, excludeUserId)
\* the sockets the direct loop sends to: sessions of the document, except those
\* of excludeUserId, whose socket id is in this instance's socketConnections
DirectTargets(sess, d, i, excludeUserId) ==
    {x.socketId : x \in {y \in GetDocumentSessions(sess, d) :
                            /\ y.userId # excludeUserId
                            /\ y.socketId \in Local(i)}}

\* handlePubSubMessage: the sockets the relay of instance i sends to
RelayTargets(i, d) == {s \in Local(i) : wsDoc[s] = d}

\* history: sendMessage(socket, type, data) of message m to each of targets
Sent(r, targets) ==
    [r EXCEPT !.echo = IF r.from \in targets THEN @ + 1 ELSE @,
              !.got = [t \in DOMAIN r.got |->
                          IF t \in targets THEN r.got[t] + 1 ELSE r.got[t]]]

\* broadcastToDocument(ws.documentId, type, data, ws.userId) for the frame of
\* socket s: the publish, then the direct loop.  m is the place of the frame
\* in the history (0: the frame is not followed).  up: the cache store answers
\* getDocumentSessions; when it does not, the call returns [].
BroadcastToDocument(s, m, up) ==
    LET d == wsDoc[s]
        joined == {t \in Sockets \ {s} : sockState[t] = "open" /\ wsDoc[t] = d}
        r == [from |-> s, doc |-> d,
              solo |-> \A i \in Instances :
                          \E t \in Sockets : Local(i) = {t} /\ wsDoc[t] = d,
              echo |-> 0,
              got |-> [t \in joined |-> 0]]
        direct == IF up THEN DirectTargets(sessions, d, SockInst[s], SockUser[s]) ELSE {}
    IN /\ busQ' = Publish(busQ, handlers, [doc |-> d, id |-> m])
       /\ msgs' = IF m = 0 THEN msgs ELSE Append(msgs, Sent(r, direct))

\* history: socket s broadcasts a frame at time t.  The frame continues the
\* activity of the socket when its session is in place and less than
\* SESSION_TTL has passed since its join or its previous frame.
Activity(ls, sess, s, t) ==
    LET u == SockUser[s]
        d == wsDoc[s]
        prev == IF sess[d][u].lastActive > ls[s] THEN sess[d][u].lastActive ELSE ls[s]
    IN IF u \in DOMAIN sess[d] /\ t - prev < SESSION_TTL
       THEN [ls EXCEPT ![s] = t]
       ELSE ls

\* 'yjs-update' / 'awareness-update' frame: handleMessage, then handleYjsUpdate
\* or handleAwarenessUpdate, which make the same broadcastToDocument call with
\* the type of the frame.  limited is the answer of RateLimitService.
Update(s, type, limited) ==
    /\ sockState[s] = "open"
    /\ IF limited \/ wsDoc[s] = NoDoc
       THEN \* an error frame to the sender, nothing else
            UNCHANGED vars
       ELSE /\ Len(msgs) < MaxMsgs
            /\ BroadcastToDocument(s, Len(msgs) + 1, TRUE)
            /\ lastSent' = Activity(lastSent, sessions, s, now)
            /\ UNCHANGED <<sideVars, sockState, wsDoc, sessions, expireAt, now, handlers>>

\* the subscriber connection of instance i hands the next envelope to the
\* listener, which looks the handler up and relays to the local sockets
Deliver(i) ==
    /\ busQ[i] # <<>>
    /\ LET env == Head(busQ[i])
       IN /\ busQ' = [busQ EXCEPT ![i] = Tail(@)]
          /\ IF env.doc \in handlers[i] /\ env.id \in DOMAIN msgs
             THEN msgs' = [msgs EXCEPT ![env.id] = Sent(@, RelayTargets(i, env.doc))]
             ELSE UNCHANGED msgs
    /\ UNCHANGED <<lastSent, sideVars, sockState, wsDoc, sessions, expireAt, now, handlers>>

\* ---- the listeners of the subscriber connection followed
LeaveListeners(l, sess, s) ==
    IF Leaves(s) /\ LeaveUnsubscribes(LeaveSessions(sess, s), wsDoc[s])
    THEN RemoveListeners(l, SockInst[s], wsDoc[s])
    ELSE l

\* 'join-document' frame, with the listener its subscribe call registers
JoinSubscribes(s, d) ==
    /\ sockState[s] = "open"
    /\ LeaveListeners(listeners, sessions, s)[SockInst[s]][d] < MaxListeners
    /\ LET left == LeaveSessions(sessions, s)
           h1 == LeaveHandlers(handlers, sessions, s)
       IN /\ wsDoc' = [wsDoc EXCEPT ![s] = d]
          /\ sessions' = AddSession(left, d, SockUser[s], s, now)
          /\ expireAt' = RefreshTtl(KeyTtl(expireAt, left), d, now)
          /\ handlers' = Subscribe(h1, SockInst[s], d)
          /\ listeners' = AddListener(LeaveListeners(listeners, sessions, s), SockInst[s], d)
    /\ msgs' = Depart(msgs, s)
    /\ UNCHANGED <<lastSent, rlVars, qVars, pVars, oVars, wVars, dVars, cVars, runs, sockState, now, busQ>>

\* 'leave-document' frame, with the listeners its unsubscribe call removes
LeaveSubscribed(s) ==
    /\ sockState[s] = "open"
    /\ Leaves(s)
    /\ sessions' = LeaveSessions(sessions, s)
    /\ expireAt' = KeyTtl(expireAt, sessions')
    /\ handlers' = LeaveHandlers(handlers, sessions, s)
    /\ listeners' = LeaveListeners(listeners, sessions, s)
    /\ wsDoc' = [wsDoc EXCEPT ![s] = NoDoc]
    /\ msgs' = Depart(msgs, s)
    /\ UNCHANGED <<lastSent, rlVars, qVars, pVars, oVars, wVars, dVars, cVars, runs, sockState, now, busQ>>

\* history: the relay of message m runs n times
Relayed(r, targets, n) ==
    [r EXCEPT !.echo = IF r.from \in targets THEN @ + n ELSE @,
              !.got = [t \in DOMAIN r.got |->
                          IF t \in targets THEN r.got[t] + n ELSE r.got[t]]]

\* the subscriber connection of instance i hands the next envelope to every
\* listener it holds for the channel; each looks the handler up and runs it
DeliverToListeners(i) ==
    /\ busQ[i] # <<>>
    /\ LET env == Head(busQ[i])
           n == IF env.doc \in handlers[i] THEN listeners[i][env.doc] ELSE 0
       IN /\ busQ' = [busQ EXCEPT ![i] = Tail(@)]
          /\ IF env.id \in DOMAIN msgs
             THEN /\ msgs' = [msgs EXCEPT ![env.id] = Relayed(@, RelayTargets(i, env.doc), n)]
                  /\ runs' = [runs EXCEPT ![i][env.id] = @ + n]
             ELSE UNCHANGED <<msgs, runs>>
    /\ UNCHANGED <<lastSent, rlVars, qVars, pVars, oVars, wVars, dVars, cVars, listeners,
                   sockState, wsDoc, sessions, expireAt, now, handlers>>

\* ---- handleLeaveDocument await by await
\* a call that found ws.documentId set: removeSession is awaited
LeaveCall(d) == [doc |-> d, stage |-> "remove"]

\* handleLeaveDocument(ws) up to its first await: ws.documentId is read and
\* stays set
LeaveCalls(calls, d) == Append(calls, LeaveCall(d))

\* the first join of a socket
JoinOnce(s, d) ==
    /\ wsDoc[s] = NoDoc
    /\ leaving[s] = <<>>
    /\ userLeft[s] = 0
    /\ JoinDocument(s, d)

\* the 'leave-document' frame of a socket: handleMessage calls
\* handleLeaveDocument and does not wait for it
LeaveFrame(s) ==
    /\ sockState[s] = "open"
    /\ Leaves(s)
    /\ leaving[s] = <<>>
    /\ leaving' = [leaving EXCEPT ![s] = LeaveCalls(@, wsDoc[s])]
    /\ UNCHANGED <<sockState, wsDoc, sessions, expireAt, now, handlers, busQ, msgs, lastSent,
                   rlVars, qVars, pVars, oVars, wVars, lVars, cVars, userLeft>>

\* socket 'close' event: handleDisconnect removes the socket from
\* socketConnections and calls handleLeaveDocument
Close(s) ==
    /\ sockState[s] = "open"
    /\ Len(leaving[s]) < MaxLeaves
    /\ sockState' = [sockState EXCEPT ![s] = "closed"]
    /\ leaving' = [leaving EXCEPT ![s] = IF Leaves(s) THEN LeaveCalls(@, wsDoc[s]) ELSE @]
    /\ UNCHANGED <<wsDoc, sessions, expireAt, now, handlers, busQ, msgs, lastSent,
                   rlVars, qVars, pVars, oVars, wVars, lVars, cVars, userLeft>>

\* removeSession has answered call k of socket s: user-left is published.
\* The store answers the calls of an instance in the order they were made.
LeaveRemoved(s, k) ==
    /\ k \in DOMAIN leaving[s]
    /\ leaving[s][k].stage = "remove"
    /\ \A h \in 1..(k - 1) : leaving[s][h].stage = "publish"
    /\ LET d == leaving[s][k].doc
       IN /\ sessions' = RemoveSession(sessions, d, SockUser[s])
          /\ expireAt' = KeyTtl(expireAt, sessions')
          /\ busQ' = Publish(busQ, handlers, [doc |-> d, id |-> 0])
    /\ userLeft' = [userLeft EXCEPT ![s] = @ + 1]
    /\ leaving' = [leaving EXCEPT ![s][k].stage = "publish"]
    /\ UNCHANGED <<sockState, wsDoc, now, handlers, msgs, lastSent,
                   rlVars, qVars, pVars, oVars, wVars, lVars, cVars>>

\* the publish of the oldest call of socket s has answered: ws.documentId is
\* deleted, the sessions are counted and the channel is unsubscribed when
\* none remains
LeavePublished(s) ==
    /\ leaving[s] # <<>>
    /\ Head(leaving[s]).stage = "publish"
    /\ LET d == Head(leaving[s]).doc
       IN handlers' = IF LeaveUnsubscribes(sessions, d)
                      THEN Unsubscribe(handlers, SockInst[s], d)
                      ELSE handlers
    /\ wsDoc' = [wsDoc EXCEPT ![s] = NoDoc]
    /\ msgs' = Depart(msgs, s)
    /\ leaving' = [leaving EXCEPT ![s] = Tail(@)]
    /\ UNCHANGED <<sockState, sessions, expireAt, now, busQ, lastSent,
                   rlVars, qVars, pVars, oVars, wVars, lVars, cVars, userLeft>>

\* ---- CustomWebsocketProvider
\* connect(): a new WebSocket, kept in this.ws
ProviderConnect ==
    /\ NextSocket(readyState) \in ClientSockets
    /\ readyState' = [readyState EXCEPT ![NextSocket(readyState)] = "CONNECTING"]
    /\ ws' = NextSocket(readyState)

\* the connection of socket k is established
SocketOpens(k) ==
    /\ readyState[k] = "CONNECTING"
    /\ readyState' = [readyState EXCEPT ![k] = "OPEN"]
    /\ UNCHANGED <<sockState, wsDoc, sessions, expireAt, now, handlers, busQ, msgs, lastSent,
                   rlVars, qVars, pVars, oVars, wVars, lVars, dVars,
                   ws, isIntentionallyDisconnected, isTabHidden, reconnects>>

\* the close event of socket k (the connection failed, was lost, or close()
\* has completed): onclose sets the reconnect timer
SocketCloses(k) ==
    /\ readyState[k] \in {"CONNECTING", "OPEN", "CLOSING"}
    /\ readyState' = [readyState EXCEPT ![k] = "CLOSED"]
    /\ reconnects' = IF ~isIntentionallyDisconnected /\ ~isTabHidden
                     THEN reconnects + 1
                     ELSE reconnects
    /\ UNCHANGED <<sockState, wsDoc, sessions, expireAt, now, handlers, busQ, msgs, lastSent,
                   rlVars, qVars, pVars, oVars, wVars, lVars, dVars,
                   ws, isIntentionallyDisconnected, isTabHidden>>

\* the callback of setTimeout(() => this.connect(), 1000)
ReconnectTimer ==
    /\ reconnects > 0
    /\ reconnects' = reconnects - 1
    /\ ProviderConnect
    /\ UNCHANGED <<sockState, wsDoc, sessions, expireAt, now, handlers, busQ, msgs, lastSent,
                   rlVars, qVars, pVars, oVars, wVars, lVars, dVars,
                   isIntentionallyDisconnected, isTabHidden>>

\* setTabHidden(hidden)
SetTabHidden(hidden) ==
    /\ isTabHidden' = hidden
    /\ IF ~hidden /\ ~IsConnected(readyState, ws) /\ ~isIntentionallyDisconnected
       THEN ProviderConnect
       ELSE UNCHANGED <<readyState, ws>>
    /\ UNCHANGED <<sockState, wsDoc, sessions, expireAt, now, handlers, busQ, msgs, lastSent,
                   rlVars, qVars, pVars, oVars, wVars, lVars, dVars,
                   isIntentionallyDisconnected, reconnects>>

\* disconnect(): the flag, then this.ws.close()
ProviderDisconnect ==
    /\ isIntentionallyDisconnected' = TRUE
    /\ readyState' = IF readyState[ws] \in {"CONNECTING", "OPEN"}
                     THEN [readyState EXCEPT ![ws] = "CLOSING"]
                     ELSE readyState
    /\ UNCHANGED <<sockState, wsDoc, sessions, expireAt, now, handlers, busQ, msgs, lastSent,
                   rlVars, qVars, pVars, oVars, wVars, lVars, dVars,
                   ws, isTabHidden, reconnects>>

\* leaveDocument(): the flag, and a leave-document frame on an open socket
ProviderLeaveDocument ==
    /\ isIntentionallyDisconnected' = TRUE
    /\ UNCHANGED <<sockState, wsDoc, sessions, expireAt, now, handlers, busQ, msgs, lastSent,
                   rlVars, qVars, pVars, oVars, wVars, lVars, dVars,
                   readyState, ws, isTabHidden, reconnects>>

\* ---- handleMessage with the rate limiter of the code
FramesChecked(log) ==  Len(log[<<"P", "yjs-update">>]) + Len(log[<<"P", "awareness-update">>])
                     + Len(log[<<"Q", "yjs-update">>]) + Len(log[<<"Q", "awareness-update">>])

\* no error frame
SendErrorDropped(e, s) == e

\* sendError(ws, ...)
SendError(e, s) == [e EXCEPT ![s] = @ + 1]

\* A 'yjs-update' / 'awareness-update' frame of socket s at rlNow: the check,
\* the handler of the type, the increment.  up: the cache store answers during
\* this frame (the pub/sub connections are separate clients).
HandleMessage(s, type, up) ==
    /\ sockState[s] = "open"
    /\ FramesChecked(rlLog) < MaxFrames
    /\ LET key == <<SockUser[s], type>>
           res == IsRateLimited(rlBlock[key], rlWindow[key], RateLimitConfigs[type], rlNow, up)
           m == IF Len(msgs) < MaxMsgs THEN Len(msgs) + 1 ELSE 0
       IN /\ rlLog' = [rlLog EXCEPT ![key] =
                          Append(@, [t |-> rlNow, ok |-> ~res.isLimited, up |-> up,
                                     pub |-> ~res.isLimited /\ wsDoc[s] # NoDoc])]
          /\ rlBlock' = [rlBlock EXCEPT ![key] = res.block]
          /\ IF res.isLimited
             THEN /\ errs' = SendError(errs, s)
                  /\ UNCHANGED <<rlWindow, busQ, msgs, lastSent>>
             ELSE /\ rlWindow' = [rlWindow EXCEPT ![key] = IncrementRateLimit(@, rlNow, up)]
                  /\ IF wsDoc[s] = NoDoc
                     THEN /\ errs' = SendError(errs, s)
                          /\ UNCHANGED <<busQ, msgs, lastSent>>
                     ELSE /\ BroadcastToDocument(s, m, up)
                          /\ lastSent' = Activity(lastSent, sessions, s, now)
                          /\ UNCHANGED errs
    /\ UNCHANGED <<sockState, wsDoc, sessions, expireAt, now, handlers, rlNow, qVars, pVars, oVars, wVars, lVars, dVars, cVars>>

\* a frame of a type handleMessage does not know: the default of the switch
UnknownFrame(s) ==
    /\ sockState[s] = "open"
    /\ errs[s] < MaxFrames
    /\ errs' = SendError(errs, s)
    /\ UNCHANGED <<gwVars, rlNow, rlWindow, rlBlock, rlLog, qVars, pVars>>

\* ---- handleMessage around its await of isRateLimited
\* a 'yjs-update' / 'awareness-update' frame of socket s arrives: handleMessage
\* runs to the await; doc is ws.documentId at that moment (history)
UpdateFrame(s, type) ==
    /\ sockState[s] = "open"
    /\ arrived[s] < MaxArrivals
    /\ arrived' = [arrived EXCEPT ![s] = @ + 1]
    /\ awaiting' = [awaiting EXCEPT ![s] = Append(@, [type |-> type, doc |-> wsDoc[s]])]
    /\ UNCHANGED <<sockState, wsDoc, sessions, expireAt, now, handlers, busQ, msgs, lastSent,
                   rlVars, qVars, pVars, wVars, lVars, dVars, cVars>>

\* isRateLimited answers the oldest waiting call of socket s, and the call
\* goes on: the error frame, or the handler of the type with ws.documentId
\* as it is now
LimiterReply(s, limited) ==
    /\ awaiting[s] # <<>>
    /\ awaiting' = [awaiting EXCEPT ![s] = Tail(@)]
    /\ IF limited \/ wsDoc[s] = NoDoc
       THEN /\ errs' = SendError(errs, s)
            /\ UNCHANGED <<busQ, msgs, lastSent>>
       ELSE /\ BroadcastToDocument(s, IF Len(msgs) < MaxMsgs THEN Len(msgs) + 1 ELSE 0, TRUE)
            /\ lastSent' = Activity(lastSent, sessions, s, now)
            /\ UNCHANGED errs
    /\ UNCHANGED <<sockState, wsDoc, sessions, expireAt, now, handlers, arrived,
                   rlNow, rlWindow, rlBlock, rlLog, qVars, pVars, wVars, lVars, dVars, cVars>>

\* a millisecond passes
RlTick ==
    /\ rlNow < MaxRlNow
    /\ rlNow' = rlNow + 1
    /\ UNCHANGED <<sockState, wsDoc, sessions, expireAt, now, handlers, busQ, msgs,
                   lastSent, errs, rlWindow, rlBlock, rlLog, qVars, pVars, oVars, wVars, lVars, dVars, cVars>>

\* ---- the queue: QueueService and QueueWorkerService
\* addDocumentUpdateJob, each job id generated once
AddDocumentUpdateJob(j) ==
    /\ \A k \in DOMAIN enqueued : enqueued[k] # j
    /\ pending' = LPush(pending, NewJob(j))
    /\ enqueued' = Append(enqueued, j)
    /\ cleared' = FALSE
    /\ UNCHANGED <<gwVars, rlVars, pVars, processing, failed, timers, held, retr, retResult,
                   dequeued, procs, done, retried, retryMark>>

\* QueueWorkerService.processNextJob up to the call of handleJob:
\* QueueService.processNextJob pops the head and records the job as processing
ProcessNextJob(w) ==
    /\ tickers[WorkerProcess[w]] > 0
    /\ held[w] = NoJob
    /\ pending # <<>>
    /\ procs[Head(pending).id] < MaxProcs
    /\ LET job == Head(pending)
       IN /\ pending' = LPop(pending)
          /\ processing' = processing \cup {job.id}
          /\ held' = [held EXCEPT ![w] = job]
          /\ startedAt' = [startedAt EXCEPT ![job.id] = now]
          /\ procs' = [procs EXCEPT ![job.id] = @ + 1]
          /\ dequeued' = IF procs[job.id] = 0
                         THEN Append(dequeued, [id |-> job.id, w |-> w])
                         ELSE dequeued
    /\ UNCHANGED <<gwVars, rlVars, pRest, failed, timers, retr, retResult,
                   enqueued, done, retried, retryMark, cleared>>

\* start() without its isRunning guard
StartTickerAlways(running, n) == n + 1

\* start(): returns when the worker is running, else setInterval
StartTicker(running, n) == IF running THEN n ELSE n + 1

Start(p) ==
    /\ tickers' = [tickers EXCEPT ![p] = StartTicker(isRunning[p], @)]
    /\ isRunning' = [isRunning EXCEPT ![p] = TRUE]
    /\ UNCHANGED <<sockState, wsDoc, sessions, expireAt, now, handlers, busQ, msgs, lastSent,
                   rlVars, qVars, pVars, oVars, lVars, dVars, cVars>>

\* stop(): returns when the worker is not running, else clearInterval of the kept handle
Stop(p) ==
    /\ isRunning[p]
    /\ isRunning' = [isRunning EXCEPT ![p] = FALSE]
    /\ tickers' = [tickers EXCEPT ![p] = IF @ > 0 THEN @ - 1 ELSE 0]
    /\ UNCHANGED <<sockState, wsDoc, sessions, expireAt, now, handlers, busQ, msgs, lastSent,
                   rlVars, qVars, pVars, oVars, lVars, dVars, cVars>>

\* handleDocumentUpdateJob runs to its end: completeJob(job.id)
CompleteJob(w) ==
    /\ held[w] # NoJob
    /\ stage[w] = "update"
    /\ JobFailure[held[w].id] # "null"
    /\ processing' = processing \ {held[w].id}
    /\ startedAt' = [startedAt EXCEPT ![held[w].id] = 0]
    /\ done' = done \cup {held[w].id}
    /\ held' = [held EXCEPT ![w] = NoJob]
    /\ UNCHANGED <<gwVars, rlVars, pRest, pending, failed, timers, retr, retResult,
                   enqueued, dequeued, procs, retried, retryMark, cleared>>

\* handleDocumentUpdateJob throws (updateDocument threw, or returned null and
\* the worker threw); the catch of handleJob calls failJob(job.id, message, job)
FailJob(w) ==
    /\ held[w] # NoJob
    /\ stage[w] = "update"
    /\ LET job == [held[w] EXCEPT !.attempts = @ + 1]
       IN /\ processing' = processing \ {job.id}
          /\ startedAt' = [startedAt EXCEPT ![job.id] = 0]
          /\ IF Exhausted(job.attempts, DEFAULT_MAX_ATTEMPTS)
             THEN failed' = LPush(failed, FailedJob(job, JobFailure[job.id]))
                  /\ UNCHANGED timers
             ELSE timers' = Append(timers, [job |-> job, p |-> WorkerProcess[w]])
                  /\ UNCHANGED failed
    /\ held' = [held EXCEPT ![w] = NoJob]
    /\ UNCHANGED <<gwVars, rlVars, pRest, pending, retr, retResult,
                   enqueued, dequeued, procs, done, retried, retryMark, cleared>>

\* the setTimeout callback of failJob: the job is pushed back
RetryTimer(k) ==
    /\ k \in DOMAIN timers
    /\ pending' = LPush(pending, timers[k].job)
    /\ timers' = SubSeq(timers, 1, k - 1) \o SubSeq(timers, k + 1, Len(timers))
    /\ UNCHANGED <<gwVars, rlVars, pVars, processing, failed, held, retr, retResult,
                   enqueued, dequeued, procs, done, retried, retryMark, cleared>>

\* retryFailedJob(jobId), up to its first write: lRange and the scan.  Without
\* an entry of that id the call returns false.
RetryFailedJobScan(r, j) ==
    /\ retr[r] = NoJob
    /\ Cardinality(retried) + Cardinality({q \in Requests : retr[q] # NoJob}) < MaxRetries
    /\ LET found == {i \in DOMAIN failed : failed[i].id = j}
       IN IF found = {}
          THEN /\ retResult' = [retResult EXCEPT ![r] = "false"]
               /\ UNCHANGED retr
          ELSE /\ retr' = [retr EXCEPT ![r] =
                              failed[CHOOSE i \in found : \A k \in found : i <= k]]
               /\ retResult' = [retResult EXCEPT ![r] = "none"]
    /\ UNCHANGED <<gwVars, rlVars, pVars, pending, processing, failed, timers, held,
                   enqueued, dequeued, procs, done, retried, retryMark, cleared>>

\* retryFailedJob(jobId), from lRem on: the entry found is removed, the job is
\* pushed back with attempts 0, the call returns true
RetryFailedJobPush(r) ==
    /\ retr[r] # NoJob
    /\ failed' = LRem(failed, retr[r])
    /\ pending' = LPush(pending, RetryJob(retr[r]))
    /\ retResult' = [retResult EXCEPT ![r] = "true"]
    /\ retried' = retried \cup {retr[r].id}
    /\ retryMark' = [retryMark EXCEPT ![retr[r].id] = procs[retr[r].id]]
    /\ cleared' = FALSE
    /\ retr' = [retr EXCEPT ![r] = NoJob]
    /\ UNCHANGED <<gwVars, rlVars, pVars, processing, timers, held,
                   enqueued, dequeued, procs, done>>

\* clearAllQueues(): the three keys are deleted
ClearAllQueues ==
    /\ pending' = <<>>
    /\ processing' = {}
    /\ failed' = <<>>
    /\ startedAt' = [j \in Jobs |-> 0]
    /\ cleared' = /\ \A w \in Workers : held[w] = NoJob
                  /\ \A r \in Requests : retr[r] = NoJob
    /\ UNCHANGED <<gwVars, rlVars, pRest, timers, held, retr, retResult,
                   enqueued, dequeued, procs, done, retried, retryMark>>

\* ---- handleDocumentUpdateJob, await by await
\* updateDocument has written the row; cacheDocumentContent builds its object
\* and sends setEx on the connection of the process (a store that is down
\* makes it throw, which cacheDocumentContent swallows)
UpdateDocument(w, up) ==
    /\ held[w] # NoJob
    /\ stage[w] = "update"
    /\ LET j == held[w].id
           d == JobDoc[j]
           row == [document[d] EXCEPT !.content = JobContent[j]]
       IN /\ document' = [document EXCEPT ![d] = row]
          /\ applied' = [applied EXCEPT ![j] = @ + 1]
          /\ IF up
             THEN /\ setexQ' = [setexQ EXCEPT ![WorkerProcess[w]] =
                        Append(@, [w |-> w, doc |-> d, of |-> row,
                                   text |-> Stringify(CacheData(row.content, row.title, now))])]
                  /\ stage' = [stage EXCEPT ![w] = "cache"]
             ELSE /\ stage' = [stage EXCEPT ![w] = "history"]
                  /\ UNCHANGED setexQ
    /\ UNCHANGED <<gwVars, rlVars, qVars, docCache, startedAt, editHistory, response,
                   changed, histFails, lastBody, cachedOf>>

\* the store runs the oldest setEx of a connection; the run that sent it goes on
SetEx(p) ==
    /\ setexQ[p] # <<>>
    /\ LET c == Head(setexQ[p])
       IN /\ docCache' = [docCache EXCEPT ![c.doc] = c.text]
          /\ stage' = [stage EXCEPT ![c.w] = "history"]
          /\ cachedOf' = [cachedOf EXCEPT ![c.doc] = c.of]
    /\ setexQ' = [setexQ EXCEPT ![p] = Tail(@)]
    /\ UNCHANGED <<gwVars, rlVars, qVars, document, startedAt, editHistory, response,
                   changed, applied, histFails, lastBody>>

\* createEditHistory returns and completeJob(job.id) runs
CreateEditHistory(w) ==
    /\ held[w] # NoJob
    /\ stage[w] = "history"
    /\ editHistory' = editHistory \cup {held[w].id}
    /\ processing' = processing \ {held[w].id}
    /\ startedAt' = [startedAt EXCEPT ![held[w].id] = 0]
    /\ done' = done \cup {held[w].id}
    /\ held' = [held EXCEPT ![w] = NoJob]
    /\ stage' = [stage EXCEPT ![w] = "update"]
    /\ UNCHANGED <<gwVars, rlVars, pending, failed, timers, retr, retResult,
                   enqueued, dequeued, procs, retried, retryMark, cleared,
                   document, docCache, setexQ, response, changed, applied, histFails,
                   lastBody, cachedOf>>

\* createEditHistory throws (access denied, or the data gateway): the catch of
\* handleDocumentUpdateJob throws it again and the catch of handleJob calls
\* failJob(job.id, message, job)
CreateEditHistoryThrows(w) ==
    /\ held[w] # NoJob
    /\ stage[w] = "history"
    /\ LET job == [held[w] EXCEPT !.attempts = @ + 1]
       IN /\ processing' = processing \ {job.id}
          /\ startedAt' = [startedAt EXCEPT ![job.id] = 0]
          /\ histFails' = histFails \cup {job.id}
          /\ IF Exhausted(job.attempts, DEFAULT_MAX_ATTEMPTS)
             THEN failed' = LPush(failed, FailedJob(job, "history"))
                  /\ UNCHANGED timers
             ELSE timers' = Append(timers, [job |-> job, p |-> WorkerProcess[w]])
                  /\ UNCHANGED failed
    /\ held' = [held EXCEPT ![w] = NoJob]
    /\ stage' = [stage EXCEPT ![w] = "update"]
    /\ UNCHANGED <<gwVars, rlVars, pending, retr, retResult,
                   enqueued, dequeued, procs, done, retried, retryMark, cleared,
                   document, docCache, setexQ, editHistory, response, changed, applied,
                   lastBody, cachedOf>>
\* the timers of a process end with it: those of the other processes stay
TimersLeft(ts, p) == SelectSeq(ts, LAMBDA x : x.p # p)

\* a worker process exits (SIGTERM, SIGINT: process.exit) with its runs and
\* the commands it has not sent; nothing of the store is touched
ProcessExit(p) ==
    /\ \/ \E w \in Workers : WorkerProcess[w] = p /\ held[w] # NoJob
       \/ \E k \in DOMAIN timers : timers[k].p = p
    /\ timers' = TimersLeft(timers, p)
    /\ held' = [w \in Workers |-> IF WorkerProcess[w] = p THEN NoJob ELSE held[w]]
    /\ stage' = [w \in Workers |-> IF WorkerProcess[w] = p THEN "update" ELSE stage[w]]
    /\ setexQ' = [setexQ EXCEPT ![p] = <<>>]
    /\ UNCHANGED <<gwVars, rlVars, pending, processing, failed, retr, retResult,
                   enqueued, dequeued, procs, done, retried, retryMark, cleared,
                   document, docCache, startedAt, editHistory, response, changed,
                   applied, histFails, lastBody, cachedOf>>

\* ---- DocumentsController.updateDocument, the update route: the row is
\* written by DocumentsService.updateDocument and the document is answered,
\* or notFound when the document is missing or not the user's
UpdateDocumentRequest(d, content, found) ==
    /\ IF found
       THEN /\ document' = [document EXCEPT ![d].content = content]
            /\ response' = "success"
       ELSE /\ response' = "notFound"
            /\ UNCHANGED document
    /\ lastBody' = [lastBody EXCEPT ![d] = content]
    /\ UNCHANGED <<gwVars, rlVars, qVars, docCache, stage, setexQ, startedAt,
                   editHistory, changed, applied, histFails, cachedOf>>

\* ---- the content cache called on its own
\* cacheDocumentContent, to the reply of setEx
CacheDocumentContent(d, content, title, up) ==
    /\ docCache' = IF up
                   THEN [docCache EXCEPT ![d] = Stringify(CacheData(content, title, now))]
                   ELSE docCache
    /\ cachedOf' = IF up
                   THEN [cachedOf EXCEPT ![d] = [content |-> content, title |-> title]]
                   ELSE cachedOf
    /\ changed' = NoCall
    /\ UNCHANGED <<gwVars, rlVars, qVars, document, stage, setexQ, startedAt,
                   editHistory, response, applied, histFails, lastBody>>

\* a call of hasDocumentContentChanged
ContentChanged(d, newContent, newTitle, up) ==
    /\ changed' = [doc |-> d, newContent |-> newContent, newTitle |-> newTitle, up |-> up,
                   result |-> HasDocumentContentChanged(docCache[d], newContent, newTitle, up)]
    /\ UNCHANGED <<gwVars, rlVars, qVars, document, docCache, stage, setexQ, startedAt,
                   editHistory, response, applied, histFails, lastBody, cachedOf>>

\* cleanupStaleSessions: every hash loses its stale fields
CleanupStaleSessions ==
    /\ sessions' = [d \in Docs |->
                        DeleteFields(sessions, d, StaleUserIds(sessions, d, now))[d]]
    /\ expireAt' = KeyTtl(expireAt, sessions')
    /\ UNCHANGED <<lastSent, sideVars, sockState, wsDoc, now, handlers, busQ, msgs>>

\* time passes; the store drops the hashes whose TTL runs out
Tick ==
    /\ now < MaxTicks * TickStep
    /\ now' = now + TickStep
    /\ sessions' = Expired(sessions, expireAt, now')
    /\ expireAt' = KeyTtl(expireAt, sessions')
    /\ UNCHANGED <<lastSent, sideVars, sockState, wsDoc, handlers, busQ, msgs>>

\* the frames of one document, followed at one instant of the clock
FanoutDocs == {"D1"}

Next ==
    \/ \E s \in Sockets : Connect(s)
    \/ \E s \in Sockets, d \in FanoutDocs : JoinDocument(s, d)
    \/ \E s \in Sockets : LeaveDocument(s)
    \/ \E s \in Sockets : Disconnect(s)
    \/ \E s \in Sockets, type \in UpdateTypes, limited \in BOOLEAN : Update(s, type, limited)
    \/ \E i \in Instances : Deliver(i)

Spec == Init /\ [][Next]_vars

\* the presence and subscription handlers, with the clock: no update frame is sent
PresenceNext ==
    \/ \E s \in Sockets : Connect(s)
    \/ \E s \in Sockets, d \in Docs : JoinDocument(s, d)
    \/ \E s \in Sockets : LeaveDocument(s)
    \/ \E s \in Sockets : Disconnect(s)
    \/ CleanupStaleSessions
    \/ Tick

PresenceSpec == Init /\ [][PresenceNext]_vars

\* the rate limiter in front of the update frames of one connection, with a
\* second connection of the instance as its audience, over a few milliseconds
RateSockets == {"s1", "s3"}
RateSenders == {"s1"}

RateNext ==
    \/ \E s \in RateSockets : Connect(s)
    \/ \E s \in RateSockets, d \in FanoutDocs : JoinDocument(s, d)
    \/ \E s \in RateSenders, type \in UpdateTypes, up \in BOOLEAN : HandleMessage(s, type, up)
    \/ RlTick

RateSpec == Init /\ [][RateNext]_vars

\* update frames of connected sockets, one per principal, while the clock
\* moves and the sweep runs: nobody leaves or disconnects
ActivitySockets == {"s1", "s3"}

ActivityNext ==
    \/ \E s \in ActivitySockets : Connect(s)
    \/ \E s \in ActivitySockets, d \in FanoutDocs : JoinDocument(s, d)
    \/ \E s \in ActivitySockets, type \in UpdateTypes, limited \in BOOLEAN :
            Update(s, type, limited)
    \/ \E i \in Instances : Deliver(i)
    \/ CleanupStaleSessions
    \/ Tick

ActivitySpec == Init /\ [][ActivityNext]_vars

\* the frames of a connection that are no update of a joined socket: the
\* limiter at one instant, and frames of unknown type
FrameNext ==
    \/ \E s \in RateSockets : Connect(s)
    \/ \E s \in RateSockets, d \in FanoutDocs : JoinDocument(s, d)
    \/ \E s \in RateSenders, type \in UpdateTypes, up \in BOOLEAN : HandleMessage(s, type, up)
    \/ \E s \in RateSenders : UnknownFrame(s)

FrameSpec == Init /\ [][FrameNext]_vars

\* joins and leaves over two documents, with the envelopes of one join
\* followed through the bus
AnnounceSockets == {"s1", "s3", "s4"}

AnnounceNext ==
    \/ \E s \in AnnounceSockets : Connect(s)
    \/ \E s \in AnnounceSockets, d \in Docs : JoinDocument(s, d)
    \/ \E s \in AnnounceSockets, d \in Docs : JoinAnnounced(s, d)
    \/ \E s \in AnnounceSockets : LeaveDocument(s)
    \/ \E i \in Instances : Deliver(i)

AnnounceSpec == Init /\ [][AnnounceNext]_vars

\* joins and leaves with the listeners of the subscriber connections, and
\* update frames relayed to them
SubscribeNext ==
    \/ \E s \in AnnounceSockets : Connect(s)
    \/ \E s \in AnnounceSockets, d \in FanoutDocs : JoinSubscribes(s, d)
    \/ \E s \in AnnounceSockets : LeaveSubscribed(s)
    \/ \E s \in AnnounceSockets, type \in UpdateTypes : Update(s, type, FALSE)
    \/ \E i \in Instances : DeliverToListeners(i)

SubscribeSpec == Init /\ [][SubscribeNext]_vars

\* sockets that join once and depart by a leave-document frame, by a close,
\* or by both, the leave followed await by await
LeaveNext ==
    \/ \E s \in AnnounceSockets : Connect(s)
    \/ \E s \in AnnounceSockets, d \in FanoutDocs : JoinOnce(s, d)
    \/ \E s \in AnnounceSockets : LeaveFrame(s)
    \/ \E s \in AnnounceSockets : Close(s)
    \/ \E s \in AnnounceSockets, k \in 1..MaxLeaves : LeaveRemoved(s, k)
    \/ \E s \in AnnounceSockets : LeavePublished(s)
    \/ \E i \in Instances : Deliver(i)

LeaveSpec == Init /\ [][LeaveNext]_vars

\* one provider of the client: its sockets, its reconnect timer, the tab
ProviderNext ==
    \/ \E k \in ClientSockets : SocketOpens(k)
    \/ \E k \in ClientSockets : SocketCloses(k)
    \/ ReconnectTimer
    \/ \E hidden \in BOOLEAN : SetTabHidden(hidden)
    \/ ProviderDisconnect
    \/ ProviderLeaveDocument

ProviderSpec == Init /\ [][ProviderNext]_vars

\* the frames of connections dispatched as they arrive, the update frames
\* waiting for the rate limiter
OrderSockets == {"s1", "s3"}

OrderNext ==
    \/ \E s \in OrderSockets : Connect(s)
    \/ \E s \in OrderSockets, d \in FanoutDocs : JoinDocument(s, d)
    \/ \E s \in OrderSockets : LeaveDocument(s)
    \/ \E s \in OrderSockets, type \in UpdateTypes : UpdateFrame(s, type)
    \/ \E s \in OrderSockets, limited \in BOOLEAN : LimiterReply(s, limited)
    \/ \E i \in Instances : Deliver(i)

OrderSpec == Init /\ [][OrderNext]_vars

\* the persistence queue with its workers and the retry requests
QueueRuns == {"w1", "w2"}
QueueNext ==
    \/ \E j \in Jobs : AddDocumentUpdateJob(j)
    \/ \E w \in QueueRuns : ProcessNextJob(w)
    \/ \E w \in QueueRuns : CompleteJob(w)
    \/ \E w \in QueueRuns : FailJob(w)
    \/ \E k \in 1..MaxTimers : RetryTimer(k)
    \/ \E r \in Requests, j \in Jobs : RetryFailedJobScan(r, j)
    \/ \E r \in Requests : RetryFailedJobPush(r)

QueueSpec == Init /\ [][QueueNext]_vars

\* the worker await by await, in two processes, and the clock
PersistRuns == {"w1", "w3"}
PersistNext ==
    \/ \E j \in Jobs : AddDocumentUpdateJob(j)
    \/ \E w \in PersistRuns : ProcessNextJob(w)
    \/ \E w \in PersistRuns, up \in BOOLEAN : UpdateDocument(w, up)
    \/ \E p \in WorkerProcesses : SetEx(p)
    \/ \E w \in PersistRuns : CreateEditHistory(w)
    \/ \E w \in PersistRuns : CreateEditHistoryThrows(w)
    \/ \E k \in 1..MaxTimers : RetryTimer(k)
    \/ Tick

PersistSpec == Init /\ [][PersistNext]_vars

\* the update route next to the queue and one run of the worker
RouteNext ==
    \/ \E d \in Docs, c \in Contents, found \in BOOLEAN : UpdateDocumentRequest(d, c, found)
    \/ \E j \in Jobs : AddDocumentUpdateJob(j)
    \/ ProcessNextJob("w1")
    \/ CompleteJob("w1")

RouteSpec == Init /\ [][RouteNext]_vars

\* one run of each worker process, processes that exit, and the clock; the
\* timer of the interval and the timers of failJob fire, and a run that holds
\* a job goes on to the end of its handler unless its process exits
TimeoutRuns == {"w1", "w3"}
TimeoutNext ==
    \/ \E j \in Jobs : AddDocumentUpdateJob(j)
    \/ \E w \in TimeoutRuns : ProcessNextJob(w)
    \/ \E w \in TimeoutRuns : CompleteJob(w)
    \/ \E w \in TimeoutRuns : FailJob(w)
    \/ \E k \in 1..MaxTimers : RetryTimer(k)
    \/ \E p \in WorkerProcesses : ProcessExit(p)
    \/ Tick

TimeoutSpec ==
    /\ Init
    /\ [][TimeoutNext]_vars
    /\ WF_vars(Tick)
    /\ WF_vars(\E k \in 1..MaxTimers : RetryTimer(k))
    /\ \A w \in TimeoutRuns : WF_vars(ProcessNextJob(w))
    /\ \A w \in TimeoutRuns : WF_vars(CompleteJob(w) \/ FailJob(w))

\* the functions of the content cache, called with every input
CacheNext ==
    \/ \E d \in Docs, c \in Contents, t \in Titles \cup {Undefined}, up \in BOOLEAN :
          CacheDocumentContent(d, c, t, up)
    \/ \E d \in Docs, c \in Contents, t \in Titles \cup {Undefined}, up \in BOOLEAN :
          ContentChanged(d, c, t, up)

CacheSpec == Init /\ [][CacheNext]_vars

\* the workers of two processes started and stopped while jobs arrive
WorkerNext ==
    \/ \E p \in WorkerProcesses : Start(p)
    \/ \E p \in WorkerProcesses : Stop(p)
    \/ \E j \in Jobs : AddDocumentUpdateJob(j)
    \/ \E w \in PersistRuns : ProcessNextJob(w)
    \/ \E w \in PersistRuns : CompleteJob(w)
    \/ \E w \in PersistRuns : FailJob(w)
    \/ \E k \in 1..MaxTimers : RetryTimer(k)

WorkerSpec == Init /\ [][WorkerNext]_vars

\* a dead-lettered job retried by two requests and handled again
AttemptNext ==
    \/ \E w \in QueueRuns : ProcessNextJob(w)
    \/ \E w \in QueueRuns : CompleteJob(w)
    \/ \E w \in QueueRuns : FailJob(w)
    \/ \E k \in 1..MaxTimers : RetryTimer(k)
    \/ \E r \in Requests, j \in Jobs : RetryFailedJobScan(r, j)
    \/ \E r \in Requests : RetryFailedJobPush(r)

AttemptSpec == AttemptInit /\ [][AttemptNext]_vars

\* the queue of one worker process with the clear route
ClearNext ==
    \/ \E j \in Jobs : AddDocumentUpdateJob(j)
    \/ \E w \in QueueRuns : ProcessNextJob(w)
    \/ \E w \in QueueRuns : CompleteJob(w)
    \/ \E w \in QueueRuns : FailJob(w)
    \/ \E k \in 1..MaxTimers : RetryTimer(k)
    \/ ClearAllQueues

ClearSpec == Init /\ [][ClearNext]_vars


\* ------------------------------------------------------------ properties
InFlight(m, i) == \E k \in 1..Len(busQ[i]) : busQ[i][k].id = m
Drained(m) == \A i \in Instances : ~InFlight(m, i)
ListUsers(sess, d) == {x.userId : x \in GetDocumentSessions(sess, d)}
Joined(s, d) == sockState[s] = "open" /\ wsDoc[s] = d
Departs(s) == (LeaveDocument(s) \/ Disconnect(s)) /\ Leaves(s)

\* C1: a socket that sends an update frame is never sent that frame back,
\* neither by the direct fan-out nor by the relay of its own instance.
C1_NoSelfEcho == \A m \in DOMAIN msgs : msgs[m].echo = 0

\* C2: every other socket joined to the document when an update frame is sent
\* (and still joined) is sent the frame at most once, and exactly once when no
\* copy of the envelope is in flight any more.
C2_ExactlyOnce ==
    \A m \in DOMAIN msgs : \A t \in DOMAIN msgs[m].got :
        /\ msgs[m].got[t] <= 1
        /\ Drained(m) => msgs[m].got[t] = 1

\* C3: when another socket of the sender's principal is joined to the document,
\* the update is admitted, only the sending socket is left out, and the other
\* sockets (the principal's second socket among them) are sent the frame.
C3_PerSocketSuppression ==
    \A m \in DOMAIN msgs :
        (\E t \in DOMAIN msgs[m].got : SockUser[t] = SockUser[msgs[m].from]) =>
            /\ msgs[m].echo = 0
            /\ Drained(m) => \A t \in DOMAIN msgs[m].got : msgs[m].got[t] >= 1

\* C4: with each instance holding one socket, joined to the document, an
\* update sent by one socket has reached the other instance's socket once the
\* bus has delivered the envelope to that instance.
C4_CrossInstance ==
    \A m \in DOMAIN msgs : \A t \in DOMAIN msgs[m].got :
        (/\ msgs[m].solo
         /\ SockInst[t] # SockInst[msgs[m].from]
         /\ ~InFlight(m, SockInst[t])) => msgs[m].got[t] >= 1

\* C5: right after a join-document of a socket the session list of the
\* document contains its principal; right after its leave-document or close
\* the session list of the document it was joined to does not.
C5_Membership ==
    [][/\ \A s \in Sockets, d \in Docs :
            JoinDocument(s, d) => SockUser[s] \in ListUsers(sessions', d)
       /\ \A s \in Sockets :
            Departs(s) => SockUser[s] \notin ListUsers(sessions', wsDoc[s])]_vars

C5_Witness ==
    /\ \E s \in Sockets : Joined(s, "D1") /\ SockUser[s] \in ListUsers(sessions, "D1")
    /\ \E s, t \in Sockets :
        /\ s # t /\ SockUser[s] = SockUser[t]
        /\ sockState[s] = "closed"
        /\ Joined(t, "D2")
        /\ SockUser[s] \notin ListUsers(sessions, "D2")

\* C6: a presence hash never holds two sessions of one principal; a join of a
\* principal that already has a session in the document replaces it by the
\* session of the joining socket and the session count does not grow.
OnePerPrincipal ==
    \A d \in Docs : \A f, g \in DOMAIN sessions[d] :
        sessions[d][f].userId = sessions[d][g].userId => f = g

JoinSupersedes ==
    \A s \in Sockets, d \in Docs :
        JoinDocument(s, d) =>
            /\ \E f \in DOMAIN sessions'[d] :
                    sessions'[d][f] = [userId |-> SockUser[s], socketId |-> s,
                                       lastActive |-> now]
            /\ SockUser[s] \in ListUsers(sessions, d) =>
                    GetDocumentSessionCount(sessions', d)
                        = GetDocumentSessionCount(sessions, d)

C6_OneSessionPerPrincipal == []OnePerPrincipal /\ [][JoinSupersedes]_vars

C6_Witness ==
    \E s, t \in Sockets :
        /\ s # t /\ SockUser[s] = SockUser[t]
        /\ Joined(s, "D1") /\ Joined(t, "D1")
        /\ GetDocumentSessions(sessions, "D1") = {[userId |-> SockUser[t], socketId |-> t]}

\* C7: a leave-document or close of a socket whose principal's session in the
\* document belongs to a newer socket leaves the presence hash unchanged.
C7_SupersededRemovalNoop ==
    [][\A s \in Sockets :
          (/\ Departs(s)
           /\ SockUser[s] \in DOMAIN sessions[wsDoc[s]]
           /\ sessions[wsDoc[s]][SockUser[s]].socketId # s
           /\ Joined(sessions[wsDoc[s]][SockUser[s]].socketId, wsDoc[s]))
          => sessions'[wsDoc[s]] = sessions[wsDoc[s]]]_vars

C9_StaysSubscribed ==
    \A s \in Sockets, d \in Docs : Joined(s, d) => d \in handlers[SockInst[s]]

\* C10: when a socket leaves or closes and no other socket of its instance is
\* joined to the document, the instance is not subscribed to the channel
\* afterwards.
C10_LastLocalUnsubscribes ==
    [][\A s \in Sockets :
          (/\ Departs(s)
           /\ \A t \in Local(SockInst[s]) \ {s} : wsDoc[t] # wsDoc[s])
          => wsDoc[s] \notin handlers'[SockInst[s]]]_vars

\* ------------------------------------------------------------ rate limiter
\* the frames of bucket k were all checked with the store answering
AllUp(k) == \A j \in DOMAIN rlLog[k] : rlLog[k][j].up
AdmittedWithin(k, j, w) ==
    {i \in 1..(j - 1) : rlLog[k][i].ok /\ rlLog[k][j].t - rlLog[k][i].t <= w}
RejectedWithin(k, j, b) ==
    {i \in 1..(j - 1) : ~rlLog[k][i].ok /\ rlLog[k][j].t - rlLog[k][i].t < b}
\* a frame that follows maxMessages admitted frames of the window is rejected
RejectsOverLimit(k) ==
    \A j \in DOMAIN rlLog[k] :
        Cardinality(AdmittedWithin(k, j, RateLimitConfigs[k[2]].windowMs))
            >= RateLimitConfigs[k[2]].maxMessages
        => ~rlLog[k][j].ok
\* after a first rejection everything is rejected for blockDurationMs
RejectsWhileBlocked(k) ==
    \A i, j \in DOMAIN rlLog[k] :
        (/\ i < j
         /\ ~rlLog[k][i].ok
         /\ (i = 1 \/ rlLog[k][i - 1].ok)
         /\ rlLog[k][j].t - rlLog[k][i].t < RateLimitConfigs[k[2]].blockDurationMs)
        => ~rlLog[k][j].ok
\* with the block over and the window empty the frame is admitted
AdmitsAfterBlock(k) ==
    \A j \in DOMAIN rlLog[k] :
        (/\ AdmittedWithin(k, j, RateLimitConfigs[k[2]].windowMs) = {}
         /\ RejectedWithin(k, j, RateLimitConfigs[k[2]].blockDurationMs) = {})
        => rlLog[k][j].ok

\* C11: for one (principal, message type) and its configuration {N, W, B}, with
\* the store reachable: the frame that arrives within W ms of N admitted frames
\* is rejected, every frame is rejected until B ms after that first rejection,
\* and a frame that arrives with the block over and the window empty is admitted.
C11_RateLimit ==
    \A k \in RateKeys :
        AllUp(k) => RejectsOverLimit(k) /\ RejectsWhileBlocked(k) /\ AdmitsAfterBlock(k)

LastChecked(log, k) == log[k][Len(log[k])]
\* the step is a frame of socket s with the given type that the limiter rejects
RejectedFrame(s, type) ==
    /\ \E up \in BOOLEAN : HandleMessage(s, type, up)
    /\ ~LastChecked(rlLog', <<SockUser[s], type>>).ok

\* C12: an update frame rejected by the rate limiter is answered with one error
\* frame to its sender, is not published on the channel nor sent to any socket,
\* and its connection stays open.
C12_RejectedFrameDropped ==
    [][\A s \in Sockets, type \in UpdateTypes :
          RejectedFrame(s, type) =>
              /\ errs'[s] = errs[s] + 1
              /\ \A t \in Sockets \ {s} : errs'[t] = errs[t]
              /\ busQ' = busQ
              /\ msgs' = msgs
              /\ sockState'[s] = "open"]_vars

\* a joined sender with a joined audience had a frame rejected and is still open
C12_Witness ==
    /\ \E k \in RateKeys : \E j \in DOMAIN rlLog[k] : ~rlLog[k][j].ok
    /\ Joined("s1", "D1") /\ Joined("s3", "D1")
    /\ errs["s1"] = 1
    /\ msgs # <<>>

\* C13: a frame checked while the store does not answer is admitted, and is
\* handled as an admitted frame is: no error frame for a joined sender, and the
\* frame published to every instance subscribed to its channel.
C13_FailOpen ==
    [][\A s \in Sockets, type \in UpdateTypes :
          HandleMessage(s, type, FALSE) =>
              /\ LastChecked(rlLog', <<SockUser[s], type>>).ok
              /\ wsDoc[s] # NoDoc =>
                    /\ errs' = errs
                    /\ \A i \in Instances :
                          wsDoc[s] \in handlers[i] => Len(busQ'[i]) = Len(busQ[i]) + 1]_vars

\* a frame was admitted without the store in the millisecond in which the
\* limiter, with the store, rejected a frame of the same bucket
C13_Witness ==
    \E k \in RateKeys : \E i, j \in DOMAIN rlLog[k] :
        /\ i < j
        /\ rlLog[k][i].up /\ ~rlLog[k][i].ok
        /\ ~rlLog[k][j].up /\ rlLog[k][j].ok
        /\ rlLog[k][j].t = rlLog[k][i].t
        /\ busQ["X"] # <<>>

\* ------------------------------------------------------------------ sweep
Fresh(sess, d, f, t) == sess[d][f].lastActive >= t - SESSION_TTL

\* C14: after cleanupStaleSessions no presence map holds a session whose
\* lastActive is older than SESSION_TTL, the sessions with a newer lastActive
\* are as they were, and a swept principal is not in the users-in-document
\* frame of another principal's socket that joins next.
C14_TtlSweep ==
    [][CleanupStaleSessions =>
        \A d \in Docs :
            /\ \A f \in DOMAIN sessions'[d] : Fresh(sessions', d, f, now)
            /\ \A f \in DOMAIN sessions[d] :
                  Fresh(sessions, d, f, now) =>
                      f \in DOMAIN sessions'[d] /\ sessions'[d][f] = sessions[d][f]
            /\ \A f \in (DOMAIN sessions[d]) \ (DOMAIN sessions'[d]) :
                  \A s \in Sockets :
                      SockUser[s] # f =>
                          f \notin ListUsers(AddSession(sessions', d, SockUser[s], s, now), d)
    ]_vars

\* P joined D1 with its only connection and is still joined, yet the sweep took
\* its session; the session of Q, joined one step of the clock later, is kept
C14_Witness ==
    /\ now = 2 * TickStep
    /\ Joined("s1", "D1") /\ sockState["s2"] = "new"
    /\ DOMAIN sessions["D1"] = {"Q"}
    /\ sessions["D1"]["Q"].lastActive = TickStep

\* C15: the session of a connected, joined socket that keeps sending update
\* frames less than SESSION_TTL apart stays in the presence map: neither the
\* sweep nor the expiry of the hash removes it.
C15_RefreshedOnActivity ==
    \A s \in Sockets :
        (/\ sockState[s] = "open"
         /\ wsDoc[s] # NoDoc
         /\ lastSent[s] > 0
         /\ now - lastSent[s] < SESSION_TTL)
        => SockUser[s] \in DOMAIN sessions[wsDoc[s]]

\* ------------------------------------------------------------------ queue
Occurrences(list, j) == Cardinality({i \in DOMAIN list : list[i].id = j})
Places(j) ==
    Occurrences(pending, j) + Occurrences(failed, j) + (IF j \in processing THEN 1 ELSE 0)

\* C16: whatever enqueue, dequeue, completeJob, failJob and retryFailedJob have
\* been run, by any number of workers, a job id is in at most one of the pending
\* list, the processing set and the dead-letter list, at most once, and in none
\* of them once it has completed.
C16_JobInOnePlace ==
    \A j \in Jobs : Places(j) <= 1 /\ (j \in done => Places(j) = 0)

InWorker(j) == \E w \in Workers : held[w].id = j
FailsEveryTime(j) == JobFailure[j] = "transient" /\ j \notin done /\ j \notin retried

\* C17: a document-update job whose gateway write fails transiently every time
\* is processed DEFAULT_MAX_ATTEMPTS times in all, and after the last failure
\* it is in the dead-letter list with error and failedAt, and getFailedJobs
\* returns it.
C17_RetryThenDeadLetter ==
    \A j \in Jobs :
        FailsEveryTime(j) =>
            /\ procs[j] <= DEFAULT_MAX_ATTEMPTS
            /\ Occurrences(failed, j) > 0 => procs[j] = DEFAULT_MAX_ATTEMPTS
            /\ (procs[j] = DEFAULT_MAX_ATTEMPTS /\ ~InWorker(j)) =>
                  \E i \in DOMAIN GetFailedJobs(failed, 10) :
                      GetFailedJobs(failed, 10)[i] =
                          [id |-> j, attempts |-> DEFAULT_MAX_ATTEMPTS,
                           error |-> "transient", failedAt |-> "set"]

\* the job failed three times and is dead-lettered, nobody having retried it
C17_Witness ==
    /\ FailsEveryTime("j1")
    /\ procs["j1"] = DEFAULT_MAX_ATTEMPTS
    /\ Occurrences(failed, "j1") = 1
    /\ Occurrences(pending, "j1") = 0 /\ timers = <<>>

SingleWorker == \A p, q \in DOMAIN dequeued : dequeued[p].w = dequeued[q].w

\* C18: the pending list is first in, first out: with a single worker, the
\* jobs come out for the first time in the order in which they were enqueued.
C18_Fifo ==
    SingleWorker => \A q \in DOMAIN dequeued : dequeued[q].id = enqueued[q]

WithoutPosition(list, i) == SubSeq(list, 1, i - 1) \o SubSeq(list, i + 1, Len(list))

\* C19: retryFailedJob(jobId) for a job in the dead-letter list removes that
\* one entry from the list, pushes the job to pending with attempts 0 and
\* returns true; for a job id that is not in the list it returns false and
\* pending, processing and dead-letter list are as before.
C19_RetryFailedJob ==
    [][\A r \in Requests :
          /\ RetryFailedJobPush(r) =>
                /\ \E i \in DOMAIN failed :
                      failed[i].id = retr[r].id /\ failed' = WithoutPosition(failed, i)
                /\ pending' = <<[id |-> retr[r].id, attempts |-> 0]>> \o pending
                /\ retResult'[r] = "true"
          /\ \A j \in Jobs :
                (RetryFailedJobScan(r, j) /\ Occurrences(failed, j) = 0) =>
                    /\ retResult'[r] = "false"
                    /\ pending' = pending /\ processing' = processing /\ failed' = failed
    ]_vars

\* C20: a job for which updateDocument returns null (not found or not
\* permitted) is failed without retry: it goes to the dead-letter list after
\* that one attempt and is not pushed back to pending.
C20_NullFailsWithoutRetry ==
    [][\A w \in Workers :
          (FailJob(w) /\ JobFailure[held[w].id] = "null") =>
              /\ Occurrences(failed', held[w].id) = Occurrences(failed, held[w].id) + 1
              /\ timers' = timers
              /\ pending' = pending
    ]_vars

\* ---- the worker, the content cache and the update route

\* C21: edit history is best-effort: when createEditHistory fails after the
\* document write, the job is completed (out of processing-jobs), is neither
\* retried nor dead-lettered, and its write is not applied again.
C21_HistoryBestEffort ==
    [][/\ \A w \in Workers :
            CreateEditHistoryThrows(w) =>
                /\ held[w].id \notin processing'
                /\ held[w].id \in done'
                /\ timers' = timers /\ failed' = failed /\ pending' = pending
       /\ \A j \in histFails : applied'[j] = applied[j]]_vars

\* C22: an update request for a document whose body is that of the request
\* before it is answered "skipped" and enqueues nothing.
C22_IdempotentPersistence ==
    [][\A d \in Docs, c \in Contents :
          UpdateDocumentRequest(d, c, TRUE) /\ lastBody[d] = c /\ response = "success" =>
              /\ response' = "skipped"
              /\ pending' = pending /\ enqueued' = enqueued]_vars

\* C23: hasDocumentContentChanged answers changed when no snapshot is cached
\* or the cache cannot be read, and otherwise exactly (new body differs from
\* the cached body) or (a new title is given and differs from the cached
\* title); the call leaves the cache as it is.
C23_HasChanged ==
    [][\A d \in Docs, c \in Contents, t \in Titles \cup {Undefined}, up \in BOOLEAN :
          ContentChanged(d, c, t, up) =>
              /\ docCache' = docCache
              /\ changed'.result.hasChanged =
                    IF ~up \/ cachedOf[d] = NoCall
                    THEN TRUE
                    ELSE (c # cachedOf[d].content)
                            \/ (t # Undefined /\ t # cachedOf[d].title)]_vars

\* a call without a new title on a snapshot cached with a title and the same body
C23_Witness ==
    /\ changed # NoCall
    /\ changed.up /\ changed.newTitle = Undefined
    /\ cachedOf[changed.doc] # NoCall
    /\ cachedOf[changed.doc].title # Undefined
    /\ cachedOf[changed.doc].content = changed.newContent
    /\ ~changed.result.hasChanged

\* C24: the version of the snapshot of a document never decreases from one
\* cache write to the next, whatever the order in which the writes of two
\* workers reach the store.
C24_VersionNonDecreasing ==
    [][\A d \in Docs :
          docCache[d] # NoKey /\ docCache'[d] # NoKey =>
              docCache'[d].version >= docCache[d].version]_vars

\* C25: at any moment at most one job dequeued by a worker process is being
\* handled by it.
C25_SingleTick ==
    \A p \in WorkerProcesses :
        Cardinality({w \in Workers : WorkerProcess[w] = p /\ held[w] # NoJob}) <= 1

\* the job is in processing-jobs and the timeout has passed since its
\* processingStartedAt
TimedOut(j) ==
    /\ j \in processing
    /\ (now - startedAt[j]) * 1000 > DEFAULT_JOB_TIMEOUT

\* C26: a job that has been in processing-jobs for more than the job timeout
\* leaves processing-jobs.
C26_JobTimeout ==
    \A j \in Jobs : TimedOut(j) ~> (j \notin processing)

\* ---- frames out of state, re-joins, dispatch order, user-joined

OutOfState(s) ==
    /\ wsDoc[s] = NoDoc
    /\ \E type \in UpdateTypes, up \in BOOLEAN : HandleMessage(s, type, up)

\* C27: an update frame of a socket that is not joined, and a frame of unknown
\* type, is answered with one error frame, publishes nothing, leaves the
\* presence hashes as they are and leaves the connection open.
C27_ProtocolErrors ==
    [][\A s \in Sockets :
          OutOfState(s) \/ UnknownFrame(s) =>
              /\ errs'[s] = errs[s] + 1
              /\ busQ' = busQ /\ msgs' = msgs
              /\ sessions' = sessions /\ expireAt' = expireAt
              /\ handlers' = handlers /\ wsDoc' = wsDoc
              /\ sockState'[s] = "open"]_vars

\* a socket that never joined has sent update frames and a frame of unknown
\* type next to a joined socket, and is open
C27_Witness ==
    /\ sockState["s1"] = "open" /\ wsDoc["s1"] = NoDoc
    /\ Joined("s3", "D1")
    /\ "P" \notin ListUsers(sessions, "D1")
    /\ Len(rlLog[<<"P", "yjs-update">>]) > 0
    /\ rlLog[<<"P", "yjs-update">>][1].ok
    /\ errs["s1"] > FramesChecked(rlLog)

\* C28: a join-document for d of a socket joined to another document removes
\* the session from that document and publishes user-left on its channel
\* before anything of d, and leaves the socket joined to d only, its
\* principal among the users of d and not among those of the document left.
C28_RejoinCleansUpFirst ==
    [][\A s \in Sockets, d \in Docs :
          JoinAnnounced(s, d) /\ Leaves(s) /\ wsDoc[s] # d =>
              /\ wsDoc'[s] = d
              /\ SockUser[s] \in ListUsers(sessions', d)
              /\ SockUser[s] \notin ListUsers(sessions', wsDoc[s])
              /\ \A i \in Instances :
                    wsDoc[s] \in handlers[i] =>
                        /\ Len(busQ'[i]) > Len(busQ[i])
                        /\ busQ'[i][Len(busQ[i]) + 1] = [doc |-> wsDoc[s], id |-> 0]]_vars

\* the join followed was a join of a socket joined to the other document
C28_Witness ==
    \E m \in DOMAIN msgs :
        /\ msgs[m].left # NoDoc /\ msgs[m].left # msgs[m].doc
        /\ Joined(msgs[m].from, msgs[m].doc)
        /\ Drained(m)

\* C29: a frame of a connection takes effect only when the frames that
\* arrived before it on that connection have been handled to their end.
C29_ArrivalOrder ==
    [][\A s \in Sockets :
          LeaveDocument(s) \/ (\E d \in Docs : JoinDocument(s, d)) =>
              awaiting[s] = <<>>]_vars

\* C30: the user-joined of a join is sent once to every other socket joined
\* to the document and never to the joining socket, which is sent the users
\* of the document, its own principal among them.
C30_UserJoinedToOthers ==
    \A m \in DOMAIN msgs :
        /\ msgs[m].echo = 0
        /\ SockUser[msgs[m].from] \in msgs[m].users
        /\ \A t \in DOMAIN msgs[m].got :
              /\ msgs[m].got[t] <= 1
              /\ Drained(m) => msgs[m].got[t] = 1

\* ---- presence keys, limiter, worker ticker, subscriptions

\* C31: getActiveDocuments lists exactly the documents that have at least one
\* session, after any joins, leaves, disconnects, sweeps and expiries.
C31_NoEmptyPresenceMap ==
    GetActiveDocuments(expireAt) = {d \in Docs : GetDocumentSessions(sessions, d) # {}}

\* before any expiry, D1 has been joined (an instance still holds its
\* handler) and has lost its sessions to removeSession: D2 alone is listed
C31_Witness ==
    /\ now = 0
    /\ \E i \in Instances : "D1" \in handlers[i]
    /\ GetDocumentSessions(sessions, "D1") = {}
    /\ GetActiveDocuments(expireAt) = {"D2"}

\* the block of the bucket is active now
Blocked(k) == rlBlock[k] # 0 /\ rlNow < rlBlock[k]

\* C32: a frame checked, with the store answering, while the block of its
\* bucket is active is rejected and leaves the block and the window as they
\* are; a window changes only by the timestamp of a frame that was admitted.
C32_BlockedPathIdempotent ==
    [][/\ \A s \in Sockets, type \in UpdateTypes :
            HandleMessage(s, type, TRUE) /\ Blocked(<<SockUser[s], type>>) =>
                /\ ~LastChecked(rlLog', <<SockUser[s], type>>).ok
                /\ rlBlock' = rlBlock
                /\ rlWindow' = rlWindow
       /\ \A k \in RateKeys :
            rlWindow'[k] # rlWindow[k] =>
                /\ Len(rlLog'[k]) = Len(rlLog[k]) + 1
                /\ LastChecked(rlLog', k).ok
                /\ rlWindow'[k] = rlWindow[k] \cup {rlNow}]_vars

\* two frames of a bucket were rejected in different milliseconds of one block
C32_Witness ==
    \E k \in RateKeys : \E i, j \in DOMAIN rlLog[k] :
        /\ i < j
        /\ ~rlLog[k][i].ok /\ ~rlLog[k][j].ok
        /\ rlLog[k][i].up /\ rlLog[k][j].up
        /\ rlLog[k][i].t < rlLog[k][j].t
        /\ rlLog[k][j].t < rlBlock[k]
        /\ rlBlock[k] = rlLog[k][i].t + RateLimitConfigs[k[2]].blockDurationMs

C34_SubscriptionIdempotent ==
    \A i \in Instances, m \in 1..MaxMsgs : runs[i][m] <= 1

\* the frames of bucket k admitted and published at a time in [a, a + w)
PublishedWithin(k, a, w) ==
    {i \in DOMAIN rlLog[k] : rlLog[k][i].pub /\ rlLog[k][i].t >= a /\ rlLog[k][i].t < a + w}

\* C35: for one (principal, type) with configuration {N, W}, checked with the
\* store answering, the frames admitted and published within any interval of W ms
\* are never more than N, also when frames arrive within the same millisecond.
C35_AdmissionBound ==
    \A k \in RateKeys, a \in 0..MaxRlNow :
        AllUp(k) =>
            Cardinality(PublishedWithin(k, a, RateLimitConfigs[k[2]].windowMs))
                <= RateLimitConfigs[k[2]].maxMessages

\* ---- jobs lost, attempts, clearAllQueues, leave during close
Submitted(j) == \E i \in DOMAIN enqueued : enqueued[i] = j
Settled(j) == j \in done \/ \E i \in DOMAIN failed : failed[i].id = j

\* C36: with the worker ticks and the timers fair, every job that was enqueued
\* is eventually completed or in failed-jobs, also when a process exits.
C36_NoJobLost ==
    \A j \in Jobs : Submitted(j) ~> Settled(j)

\* history: times job j was handed to a worker since its latest retryFailedJob
HandledSinceRetry(j) == procs[j] - retryMark[j]

\* C37: a job in document-updates or in the hands of a worker has fewer than
\* maxAttempts attempts, a job in failed-jobs has exactly maxAttempts, and a job
\* is handed to a worker at most maxAttempts times after its latest retryFailedJob.
C37_AttemptsBounded ==
    /\ \A i \in DOMAIN pending :
            pending[i].attempts >= 0 /\ pending[i].attempts < DEFAULT_MAX_ATTEMPTS
    /\ \A w \in Workers :
            held[w] # NoJob =>
                held[w].attempts >= 0 /\ held[w].attempts < DEFAULT_MAX_ATTEMPTS
    /\ \A i \in DOMAIN failed : failed[i].attempts = DEFAULT_MAX_ATTEMPTS
    /\ \A j \in Jobs : HandledSinceRetry(j) <= DEFAULT_MAX_ATTEMPTS

\* C38: once clearAllQueues has returned, with no job in a worker's hands at
\* that moment and nothing enqueued since, document-updates, processing-jobs
\* and failed-jobs are empty: a job that was waiting for its retry delay does
\* not come back.
C38_ClearIsFinal ==
    cleared => pending = <<>> /\ processing = {} /\ failed = <<>>

\* C39: at most one user-left envelope is published for a socket that joined a
\* document and departs, by a leave-document frame, by its close, or by a close
\* that follows the frame while the leave awaits the store; a socket that has
\* departed has had one published, and a socket that never joined has none.
C39_OneUserLeft ==
    \A s \in Sockets :
        /\ userLeft[s] <= 1
        /\ sockState[s] = "new" => userLeft[s] = 0
        /\ (userLeft[s] > 0 /\ leaving[s] = <<>>) => wsDoc[s] = NoDoc

\* ---- the provider of the client
Alive(rs) == {k \in ClientSockets : rs[k] \in {"CONNECTING", "OPEN"}}

\* C40: the provider has at most one WebSocket that is connecting or open, and
\* once disconnect() or leaveDocument() was called it creates no WebSocket.
C40_OneConnection ==
    [][/\ Cardinality(Alive(readyState')) <= 1
       /\ isIntentionallyDisconnected => Created(readyState') = Created(readyState)]_vars

====
